---- MODULE Spec2Model ----
(***************************************************************************)
(* Model of the weaving-pattern transforms of as_op_doubleweave:           *)
(*   filter_pattern      (filter_pattern.py)                               *)
(*   as_op_doubleweave   (as_op_doubleweave.py)                            *)
(* A dict[int, set[int]] is a function from a finite set of positive       *)
(* integers to sets of integers.  An insertion-ordered dict built by a     *)
(* comprehension is a sequence of <<key, value>> items.  A str is a TLA+   *)
(* string.  A raised exception is a result record whose status names it.   *)
(***************************************************************************)
EXTENDS Integers, Sequences, FiniteSets, TLC

\* ---- bounds of the input space ----
MaxEnd == 2
MaxPick == 2
MaxShaft == 2
MaxTreadle == 2
MaxSkip == 1
MaxHarness == 4

Ends == 1..MaxEnd
Picks == 1..MaxPick
Shafts == 1..MaxShaft
Treadles == 1..MaxTreadle

\* ---- Python values ----
NoColor == 0

EmptyDict == <<>>

Raise(type, message) == [status |-> type, message |-> message]

Returned(r) == r.status = "ok"

NotCalled == [status |-> "not called"]

\* ---- builtins ----
Min(S) == CHOOSE x \in S : \A y \in S : x <= y

RECURSIVE sorted(_)
sorted(S) == IF S = {} THEN <<>> ELSE <<Min(S)>> \o sorted(S \ {Min(S)})

RECURSIVE join(_, _)
join(sep, strs) ==
    IF Len(strs) = 0 THEN ""
    ELSE IF Len(strs) = 1 THEN strs[1]
    ELSE strs[1] \o sep \o join(sep, Tail(strs))

Range(s) == {s[i] : i \in DOMAIN s}

keys(items) == [i \in 1..Len(items) |-> items[i][1]]

values(items) == [i \in 1..Len(items) |-> items[i][2]]

replace_underscores(name) ==
    CASE name = "skip_odd_ends" -> "skip-odd-ends"
      [] name = "skip_even_ends" -> "skip-even-ends"
      [] name = "skip_odd_picks" -> "skip-odd-picks"
      [] name = "skip_even_picks" -> "skip-even-picks"
      [] OTHER -> name

\* vars(filter).items(): the dataclass fields in declaration order
FilterFields == <<"skip_odd_ends", "skip_even_ends", "skip_odd_picks", "skip_even_picks", "skip_treadles">>

\* Filter.__post_init__ : TRUE iff construction does not raise ValueError
Filter_post_init(f) ==
    /\ ~(f.skip_even_ends /\ f.skip_odd_ends)
    /\ ~(f.skip_even_picks /\ f.skip_odd_picks)

\* Filter() with every field at its default
DefaultFilter ==
    [skip_odd_ends |-> FALSE, skip_even_ends |-> FALSE,
     skip_odd_picks |-> FALSE, skip_even_picks |-> FALSE,
     skip_treadles |-> <<>>]

\* ---- filter_pattern.py ----
\* faulty variant: sorts but keeps the items whose set is empty
fp_sort_keep_empty_sets(data) ==
    LET ks == sorted(DOMAIN data)
    IN  [i \in 1..Len(ks) |-> <<ks[i], data[ks[i]]>>]

fp_sort_and_purge_empty_sets(data) ==
    LET ks == sorted(DOMAIN data)
        items == [i \in 1..Len(ks) |-> <<ks[i], data[ks[i]]>>]
    IN  SelectSeq(items, LAMBDA it : it[2] # {})

fp_filtered_threading(in_pattern, filter) ==
    LET filtered_threading == fp_sort_and_purge_empty_sets(in_pattern.threading)
    IN  IF filter.skip_odd_ends \/ filter.skip_even_ends
        THEN LET offset == IF filter.skip_odd_ends THEN 1 ELSE 0
             IN  SelectSeq(filtered_threading, LAMBDA it : (it[1] + offset) % 2 = 0)
        ELSE filtered_threading

fp_threading(filtered_threading) ==
    [i \in 1..Len(filtered_threading) |-> filtered_threading[i][2]]

fp_warp_colors(in_pattern, filtered_threading, warp) ==
    LET kept == {i \in 1..Len(filtered_threading) :
                    LET pick == filtered_threading[i][1]
                    IN  /\ pick \in DOMAIN in_pattern.warp_colors
                        /\ in_pattern.warp_colors[pick] # warp.color}
    IN  [i \in kept |-> in_pattern.warp_colors[filtered_threading[i][1]]]

fp_skip_picks(items, filter) ==
    IF filter.skip_odd_picks \/ filter.skip_even_picks
    THEN LET offset == IF filter.skip_odd_picks THEN 1 ELSE 0
         IN  SelectSeq(items, LAMBDA it : (it[1] + offset) % 2 = 0)
    ELSE items

\* faulty variant: drops the emptied picks but keeps the skipped treadles in the rest
fp_skip_treadles_keep_set(filtered_treadling, filter) ==
    IF Len(filter.skip_treadles) # 0
    THEN LET skip_treadle_set == Range(filter.skip_treadles)
         IN  SelectSeq(filtered_treadling, LAMBDA it : it[2] \ skip_treadle_set # {})
    ELSE filtered_treadling

fp_skip_treadles(filtered_treadling, filter) ==
    IF Len(filter.skip_treadles) # 0
    THEN LET skip_treadle_set == Range(filter.skip_treadles)
             kept == SelectSeq(filtered_treadling,
                               LAMBDA it : it[2] \ skip_treadle_set # {})
         IN  [i \in 1..Len(kept) |-> <<kept[i][1], kept[i][2] \ skip_treadle_set>>]
    ELSE filtered_treadling

fp_filtered_treadling(in_pattern, filter) ==
    fp_skip_treadles(
        fp_skip_picks(fp_sort_and_purge_empty_sets(in_pattern.treadling), filter),
        filter)

fp_filtered_liftplan(in_pattern, filter) ==
    fp_skip_picks(fp_sort_and_purge_empty_sets(in_pattern.liftplan), filter)

fp_weft_colors(in_pattern, filtered_treadling, filtered_liftplan, weft) ==
    LET filtered_picks == IF DOMAIN in_pattern.treadling # {}
                          THEN keys(filtered_treadling)
                          ELSE keys(filtered_liftplan)
        kept == {i \in 1..Len(filtered_picks) :
                    /\ filtered_picks[i] \in DOMAIN in_pattern.weft_colors
                    /\ in_pattern.weft_colors[filtered_picks[i]] # weft.color}
    IN  [i \in kept |-> in_pattern.weft_colors[filtered_picks[i]]]

fp_option_tokens(filter) ==
    LET Token(name) ==
            IF name = "skip_treadles"
            THEN IF Len(filter.skip_treadles) # 0
                 THEN <<join(" ", <<"skip-treadles">> \o
                            [i \in 1..Len(filter.skip_treadles) |->
                                ToString(filter.skip_treadles[i])])>>
                 ELSE <<>>
            ELSE IF filter[name] THEN <<replace_underscores(name)>> ELSE <<>>
    IN  Token(FilterFields[1]) \o Token(FilterFields[2]) \o Token(FilterFields[3])
        \o Token(FilterFields[4]) \o Token(FilterFields[5])

fp_new_name(in_pattern, filter) ==
    join(" ", <<in_pattern.name>> \o fp_option_tokens(filter))

filter_pattern(in_pattern, filter) ==
    IF filter.skip_even_ends /\ filter.skip_odd_ends
    THEN Raise("ExpectedError", "Cannot remove both even and odd ends")
    ELSE IF filter.skip_even_picks /\ filter.skip_odd_picks
    THEN Raise("ExpectedError", "Cannot remove both even and odd picks")
    ELSE
    LET warp == [in_pattern.warp EXCEPT !.threads = 0]
        weft == [in_pattern.weft EXCEPT !.threads = 0]
        filtered_threading == fp_filtered_threading(in_pattern, filter)
        filtered_treadling == fp_filtered_treadling(in_pattern, filter)
        filtered_liftplan == fp_filtered_liftplan(in_pattern, filter)
    IN  [status |-> "ok",
         \* the keys of the ordered dicts the call built before renumbering
         ends |-> keys(filtered_threading),
         picks |-> keys(filtered_treadling),
         lifts |-> keys(filtered_liftplan),
         pattern |->
           [name |-> fp_new_name(in_pattern, filter),
            threading |-> fp_threading(filtered_threading),
            tieup |-> in_pattern.tieup,
            treadling |-> values(filtered_treadling),
            liftplan |-> values(filtered_liftplan),
            color_table |-> in_pattern.color_table,
            color_range |-> in_pattern.color_range,
            warp |-> warp,
            weft |-> weft,
            warp_colors |-> fp_warp_colors(in_pattern, filtered_threading, warp),
            weft_colors |-> fp_weft_colors(in_pattern, filtered_treadling,
                                           filtered_liftplan, weft),
            source_program |-> "filter_pattern"]]

\* ---- as_op_doubleweave.py ----
sort_and_purge_empty_sets(data) ==
    LET ks == sorted(DOMAIN data)
        items == [i \in 1..Len(ks) |-> <<ks[i], data[ks[i]]>>]
    IN  SelectSeq(items, LAMBDA it : it[2] # {})

\* set.pop() removes and returns an arbitrary member
pop(S) == CHOOSE x \in S : TRUE

\* max(len(shaft_set) for shaft_set in filtered_threading.values())
dw_max_shafts_per_end(filtered_threading) ==
    LET lens == {Cardinality(filtered_threading[i][2]) : i \in 1..Len(filtered_threading)}
    IN  CHOOSE m \in lens : \A n \in lens : n <= m

\* faulty variant: min() in place of max()
dw_min_treadles_per_end(filtered_treadling) ==
    LET lens == {Cardinality(filtered_treadling[i][2]) : i \in 1..Len(filtered_treadling)}
    IN  CHOOSE m \in lens : \A n \in lens : m <= n

\* max(len(treadle_set) for treadle_set in filtered_treadling.values())
dw_max_treadles_per_end(filtered_treadling) ==
    LET lens == {Cardinality(filtered_treadling[i][2]) : i \in 1..Len(filtered_treadling)}
    IN  CHOOSE m \in lens : \A n \in lens : n <= m

\* {x: i + 1 for i, x in enumerate(sorted(set.union(*d.values())))}
rank_dict(items) ==
    LET id_set == UNION {items[i][2] : i \in 1..Len(items)}
        order == sorted(id_set)
    IN  [x \in id_set |-> CHOOSE i \in 1..Len(order) : order[i] = x]

dw_filtered_threading(original, filter) ==
    LET filtered_threading == sort_and_purge_empty_sets(original.threading)
    IN  IF filter.skip_odd_ends \/ filter.skip_even_ends
        THEN LET offset == IF filter.skip_odd_ends THEN 1 ELSE 0
             IN  SelectSeq(filtered_threading, LAMBDA it : (it[1] + offset) % 2 = 0)
        ELSE filtered_threading

dw_skip_picks(filtered_treadling, filter) ==
    IF filter.skip_odd_picks \/ filter.skip_even_picks
    THEN LET offset == IF filter.skip_odd_picks THEN 1 ELSE 0
         IN  SelectSeq(filtered_treadling, LAMBDA it : (it[1] + offset) % 2 = 0)
    ELSE filtered_treadling

dw_skip_treadles(filtered_treadling, filter) ==
    IF Len(filter.skip_treadles) # 0
    THEN LET skip_treadle_set == Range(filter.skip_treadles)
             kept == SelectSeq(filtered_treadling,
                               LAMBDA it : it[2] \ skip_treadle_set # {})
         IN  [i \in 1..Len(kept) |-> <<kept[i][1], kept[i][2] \ skip_treadle_set>>]
    ELSE filtered_treadling

dw_filtered_treadling(original, filter) ==
    dw_skip_treadles(
        dw_skip_picks(sort_and_purge_empty_sets(original.treadling), filter),
        filter)

dw_colors(warp, weft) ==
    IF warp.color = NoColor \/ weft.color = NoColor \/ warp.color = weft.color
    THEN [main_color |-> 1, opposite_color |-> 2]
    ELSE [main_color |-> warp.color, opposite_color |-> weft.color]

\* faulty variant: the half-harness shift is left out
dw_opposite_shaft_no_delta(main_shaft, shafts_delta, num_shafts) ==
    1 + ((main_shaft - 1) % num_shafts)

dw_opposite_shaft(main_shaft, shafts_delta, num_shafts) ==
    1 + ((shafts_delta + main_shaft - 1) % num_shafts)

\* faulty variant: the opposite shaft is taken one shaft further round
dw_threading_one_further(filtered_threading, shaft_dict, num_shafts, shafts_delta) ==
    [e \in 1..(2 * Len(filtered_threading)) |->
        LET i == (e - 1) \div 2
            main_end == i * 2 + 1
            original_shaft == pop(filtered_threading[i + 1][2])
            main_shaft == shaft_dict[original_shaft]
            opposite_shaft == 1 + ((shafts_delta + main_shaft) % num_shafts)
        IN  IF e = main_end THEN {main_shaft} ELSE {opposite_shaft}]

dw_threading(filtered_threading, shaft_dict, num_shafts, shafts_delta) ==
    [e \in 1..(2 * Len(filtered_threading)) |->
        LET i == (e - 1) \div 2
            main_end == i * 2 + 1
            original_shaft == pop(filtered_threading[i + 1][2])
            main_shaft == shaft_dict[original_shaft]
            opposite_shaft == dw_opposite_shaft(main_shaft, shafts_delta, num_shafts)
        IN  IF e = main_end THEN {main_shaft} ELSE {opposite_shaft}]

\* faulty variant: the second bank leaves out the treadle's own shaft
dw_tieup_own_shaft(num_shafts, shafts_delta) ==
    LET all_shafts_set == 1..num_shafts
    IN  [treadle \in 1..(2 * num_shafts) |->
            IF treadle <= num_shafts
            THEN {treadle}
            ELSE all_shafts_set \ {treadle - num_shafts}]

dw_tieup(num_shafts, shafts_delta) ==
    LET all_shafts_set == 1..num_shafts
    IN  [treadle \in 1..(2 * num_shafts) |->
            IF treadle <= num_shafts
            THEN {treadle}
            ELSE LET shaft == treadle - num_shafts
                     opposite_shaft == 1 + ((shaft - 1 + shafts_delta) % num_shafts)
                 IN  all_shafts_set \ {opposite_shaft}]

dw_treadling(filtered_treadling, treadle_dict, num_shafts) ==
    [p \in 1..(2 * Len(filtered_treadling)) |->
        LET i == (p - 1) \div 2
            main_pick == i * 2 + 1
            original_treadle == pop(filtered_treadling[i + 1][2])
            main_treadle == treadle_dict[original_treadle]
            opposite_treadle == main_treadle + num_shafts
        IN  IF p = main_pick THEN {main_treadle} ELSE {opposite_treadle}]

dw_yarn_colors(n, colors) ==
    [k \in 1..(2 * n) |->
        IF k % 2 = 1 THEN colors.main_color ELSE colors.opposite_color]

\* the sets of original.threading that the threading loop pops
dw_popped(data, popped_keys) ==
    [k \in DOMAIN data |->
        IF k \in popped_keys THEN data[k] \ {pop(data[k])} ELSE data[k]]

\* the argument object after both loops ran
dw_after_loops(original, filter, filtered_threading, filtered_treadling) ==
    [original EXCEPT
        !.threading = dw_popped(original.threading, Range(keys(filtered_threading))),
        !.treadling =
            IF Len(filter.skip_treadles) # 0
            THEN original.treadling
            ELSE dw_popped(original.treadling, Range(keys(filtered_treadling)))]

NoTreadlingMessage == "Pattern has no treadling info"

MultipleShaftsMessage ==
    "some warp yarns are threaded on multiple shafts (even after filtering)"

MultipleTreadlesMessage ==
    "some picks use more than one treadle (even after filtering)"

CountMessage(num_shafts, num_treadles) ==
    "num shafts=" \o ToString(num_shafts) \o " != num treadles="
    \o ToString(num_treadles) \o " after filtering"

JoinMessage == "sequence item 0: expected str instance, int found"

dw_option_tokens(filter) ==
    LET Token(name) == IF filter[name] THEN <<replace_underscores(name)>> ELSE <<>>
    IN  Token(FilterFields[1]) \o Token(FilterFields[2]) \o Token(FilterFields[3])
        \o Token(FilterFields[4])

\* "skip-treadles " + " ".join(value): the items of value are int, and
\* str.join raises TypeError on an item that is not a str
dw_new_name(original, filter) ==
    IF Len(filter.skip_treadles) # 0
    THEN Raise("TypeError", JoinMessage)
    ELSE [status |-> "ok",
          name |-> join(" ", <<original.name, "as op doubleweave">>
                             \o dw_option_tokens(filter))]

dw_raise(type, message, after) ==
    [status |-> type, message |-> message, after |-> after]

as_op_doubleweave(original, filter) ==
    IF Cardinality(DOMAIN original.treadling) = 0
    THEN dw_raise("RuntimeError", NoTreadlingMessage, original)
    ELSE
    LET filtered_threading == dw_filtered_threading(original, filter) IN
    IF Len(filtered_threading) = 0
    THEN dw_raise("ValueError", "max() arg is an empty sequence", original)
    ELSE IF dw_max_shafts_per_end(filtered_threading) > 1
    THEN dw_raise("RuntimeError", MultipleShaftsMessage, original)
    ELSE
    LET shaft_dict == rank_dict(filtered_threading)
        filtered_treadling == dw_filtered_treadling(original, filter)
    IN
    IF Len(filtered_treadling) = 0
    THEN dw_raise("TypeError",
            "descriptor 'union' of 'set' object needs an argument", original)
    ELSE
    LET treadle_dict == rank_dict(filtered_treadling) IN
    IF Cardinality(DOMAIN shaft_dict) # Cardinality(DOMAIN treadle_dict)
    THEN dw_raise("RuntimeError",
            CountMessage(Cardinality(DOMAIN shaft_dict),
                         Cardinality(DOMAIN treadle_dict)), original)
    ELSE IF dw_max_treadles_per_end(filtered_treadling) > 1
    THEN dw_raise("RuntimeError", MultipleTreadlesMessage, original)
    ELSE
    LET warp == [original.warp EXCEPT !.threads = 0]
        weft == [original.weft EXCEPT !.threads = 0]
        colors == dw_colors(warp, weft)
        num_shafts == Cardinality(DOMAIN shaft_dict)
        shafts_delta == num_shafts \div 2
        after == dw_after_loops(original, filter, filtered_threading, filtered_treadling)
        new_name == dw_new_name(original, filter)
    IN
    IF ~Returned(new_name)
    THEN dw_raise(new_name.status, new_name.message, after)
    ELSE
        [status |-> "ok",
         after |-> after,
         ends |-> keys(filtered_threading),
         picks |-> keys(filtered_treadling),
         pattern |->
           [name |-> new_name.name,
            threading |-> dw_threading(filtered_threading, shaft_dict,
                                       num_shafts, shafts_delta),
            tieup |-> dw_tieup(num_shafts, shafts_delta),
            treadling |-> dw_treadling(filtered_treadling, treadle_dict, num_shafts),
            liftplan |-> EmptyDict,
            color_table |-> original.color_table,
            color_range |-> original.color_range,
            warp |-> warp,
            weft |-> weft,
            warp_colors |-> dw_yarn_colors(Len(filtered_threading), colors),
            weft_colors |-> dw_yarn_colors(Len(filtered_treadling), colors),
            source_program |-> "as_op_doubleweave"]]

\* ---- the input space ----
Dicts(Keys, Ids) == UNION {[K -> SUBSET Ids] : K \in SUBSET Keys}

StraightDraw(n) == [i \in 1..n |-> {i}]

ExampleThreading == <<{1}, {2}, {1}, {2}>>

ExampleTreadling == <<{1}, {2}, {1}, {2}>>

\* a dict with no entry or one entry
SingleEntryDicts(Keys, Ids) ==
    {EmptyDict} \cup UNION {[{k} -> SUBSET Ids] : k \in Keys}

\* straight draws on 0 (nothing threaded) to n harnesses
Draws(n) == {StraightDraw(k) : k \in 0..n}

Threadings ==
    Dicts(Ends, Shafts) \cup Draws(MaxHarness) \cup {ExampleThreading}

Treadlings ==
    Dicts(Picks, Treadles) \cup Draws(MaxHarness) \cup {ExampleTreadling}

SkipChoices ==
    {s \in UNION {[1..n -> Treadles] : n \in 0..MaxSkip} :
        \A i, j \in DOMAIN s : i # j => s[i] # s[j]}

Filters ==
    {f \in [skip_odd_ends : BOOLEAN, skip_even_ends : BOOLEAN,
            skip_odd_picks : BOOLEAN, skip_even_picks : BOOLEAN,
            skip_treadles : SkipChoices] : Filter_post_init(f)}

\* the filters that act on the ends only, and on the picks only
EndFilters ==
    {f \in Filters : ~f.skip_odd_picks /\ ~f.skip_even_picks /\ Len(f.skip_treadles) = 0}

PickFilters == {f \in Filters : ~f.skip_odd_ends /\ ~f.skip_even_ends}

InputTieup == [t \in Treadles |-> {((t - 1) % MaxShaft) + 1}]

TieupLiftplan(treadling) ==
    [p \in DOMAIN treadling |-> UNION {InputTieup[t] : t \in treadling[p] \cap Treadles}]

ExampleTieup == <<{1}, {2}>>

PlainFurnishing ==
    [liftplan |-> EmptyDict, warp_color |-> NoColor, weft_color |-> NoColor,
     warp_colors |-> EmptyDict, weft_colors |-> EmptyDict]

Furnishings(treadling) ==
    { PlainFurnishing,
      [liftplan |-> TieupLiftplan(treadling), warp_color |-> 3, weft_color |-> 4,
       warp_colors |-> <<3, 5>>, weft_colors |-> <<5, 4>>],
      [liftplan |-> (2 :> {1, 2} @@ 3 :> {} @@ 5 :> {2}), warp_color |-> 3,
       weft_color |-> 3, warp_colors |-> (2 :> 5), weft_colors |-> (2 :> 3 @@ 5 :> 4)] }

PatternData(threading, tieup, treadling, fu) ==
    [name |-> "draft",
     threading |-> threading,
     tieup |-> tieup,
     treadling |-> treadling,
     liftplan |-> fu.liftplan,
     color_table |-> "color_table",
     color_range |-> "color_range",
     warp |-> [color |-> fu.warp_color, threads |-> Cardinality(DOMAIN threading)],
     weft |-> [color |-> fu.weft_color, threads |-> Cardinality(DOMAIN treadling)],
     warp_colors |-> fu.warp_colors,
     weft_colors |-> fu.weft_colors,
     source_program |-> "reader"]

VARIABLES
    input,        \* the pattern as read, before any call
    filter,       \* the Filter built from the command line
    original,     \* the object passed to as_op_doubleweave(original, filter)
    direct,       \* what that call returned or raised
    in_pattern,   \* the object passed to filter_pattern(in_pattern, filter)
    filtered,     \* what that call returned or raised
    out_pattern,  \* the pattern object filter_pattern returned
    chained       \* as_op_doubleweave(out_pattern, Filter())

vars == <<input, filter, original, direct, in_pattern, filtered, out_pattern, chained>>

\* the draft of the end-to-end example
ExamplePattern ==
    PatternData(ExampleThreading, ExampleTieup, ExampleTreadling, PlainFurnishing)

\* The drafts and filters the calls are given:
\*   every threading, under every choice of end flags, on straight treadlings;
\*   every treadling, under every choice of pick flags and skipped treadles,
\*     on straight threadings;
\*   every straight threading with every straight treadling, and every
\*     one-entry threading with every one-entry treadling, under every filter;
\*   the draft of the end-to-end example.
Init ==
    /\ \/ \E th \in Threadings, tr \in Draws(MaxHarness) :
            \E fu \in Furnishings(tr) :
               /\ input = PatternData(th, InputTieup, tr, fu)
               /\ filter \in EndFilters
       \/ \E th \in Draws(MaxShaft) \ {EmptyDict}, tr \in Treadlings :
            \E fu \in Furnishings(tr) :
               /\ input = PatternData(th, InputTieup, tr, fu)
               /\ filter \in PickFilters
       \/ \E th \in Draws(MaxHarness), tr \in Draws(MaxHarness) :
            /\ input = PatternData(th, InputTieup, tr, PlainFurnishing)
            /\ filter \in Filters
       \/ \E th \in SingleEntryDicts(Ends, Shafts), tr \in SingleEntryDicts(Picks, Treadles) :
            /\ input = PatternData(th, InputTieup, tr, PlainFurnishing)
            /\ filter \in Filters
       \/ /\ input = ExamplePattern
          /\ filter \in Filters
    /\ original = input
    /\ in_pattern = input
    /\ direct = NotCalled
    /\ filtered = NotCalled
    /\ out_pattern = NotCalled
    /\ chained = NotCalled

\* as_op_doubleweave(original, filter)
AsOpDoubleweave ==
    /\ direct = NotCalled
    /\ direct' = as_op_doubleweave(original, filter)
    /\ original' = direct'.after
    /\ UNCHANGED <<input, filter, in_pattern, filtered, out_pattern, chained>>

\* out_pattern = filter_pattern(in_pattern, filter)
FilterPattern ==
    /\ filtered = NotCalled
    /\ filtered' = filter_pattern(in_pattern, filter)
    /\ out_pattern' = IF Returned(filtered') THEN filtered'.pattern ELSE NotCalled
    /\ UNCHANGED <<input, filter, original, direct, in_pattern, chained>>

\* the sets of out_pattern.threading and out_pattern.treadling are the set
\* objects of in_pattern (filter_pattern copies no set unless skip_treadles
\* rebuilt it), so what the call pops from one is gone from the other
aliased_after(in_pat, key_seq, before, after) ==
    [k \in DOMAIN in_pat |->
        IF \E i \in 1..Len(key_seq) : key_seq[i] = k
        THEN LET i == CHOOSE j \in 1..Len(key_seq) : key_seq[j] = k
             IN  IF after[i] = before[i] THEN in_pat[k] ELSE after[i]
        ELSE in_pat[k]]

\* as_op_doubleweave(out_pattern, Filter())
DoubleweaveFiltered ==
    /\ Returned(filtered)
    /\ chained = NotCalled
    /\ chained' = as_op_doubleweave(out_pattern, DefaultFilter)
    /\ out_pattern' = chained'.after
    /\ in_pattern' =
         [in_pattern EXCEPT
            !.threading = aliased_after(in_pattern.threading, filtered.ends,
                              out_pattern.threading, out_pattern'.threading),
            !.treadling =
                IF Len(filter.skip_treadles) # 0
                THEN in_pattern.treadling
                ELSE aliased_after(in_pattern.treadling, filtered.picks,
                         out_pattern.treadling, out_pattern'.treadling)]
    /\ UNCHANGED <<input, filter, original, direct, filtered>>

Next == AsOpDoubleweave \/ FilterPattern \/ DoubleweaveFiltered

Spec == Init /\ [][Next]_vars
\* ---- properties ----
AllEven(key_seq) == \A i \in 1..Len(key_seq) : key_seq[i] % 2 = 0

AllOdd(key_seq) == \A i \in 1..Len(key_seq) : key_seq[i] % 2 = 1

\* C1: filter_pattern with skip_odd_ends retains only even original end
\* indices and with skip_even_ends only odd ones; with skip_odd_picks every
\* retained original pick index (treadling and liftplan) is even and with
\* skip_even_picks every one is odd.
ParityFilterCorrect ==
    Returned(filtered) =>
        /\ filter.skip_odd_ends => AllEven(filtered.ends)
        /\ filter.skip_even_ends => AllOdd(filtered.ends)
        /\ filter.skip_odd_picks => AllEven(filtered.picks) /\ AllEven(filtered.lifts)
        /\ filter.skip_even_picks => AllOdd(filtered.picks) /\ AllOdd(filtered.lifts)

SameDicts(p, q) ==
    /\ p.threading = q.threading
    /\ p.treadling = q.treadling
    /\ p.liftplan = q.liftplan
    /\ p.tieup = q.tieup
    /\ p.warp_colors = q.warp_colors
    /\ p.weft_colors = q.weft_colors

\* C2: whenever as_op_doubleweave or filter_pattern returns a pattern, the
\* threading, treadling, liftplan, tieup, warp_colors and weft_colors of the
\* pattern it was given are the same after the call as before it.
InputsNeverMutated ==
    /\ Returned(direct) => SameDicts(original, input)
    /\ (Returned(filtered) /\ chained = NotCalled) => SameDicts(in_pattern, input)
    /\ Returned(chained) => SameDicts(out_pattern, filtered.pattern)

ExampleCall ==
    /\ input = ExamplePattern
    /\ filter = DefaultFilter
    /\ direct # NotCalled

\* C3 as stated: the example returns threading 1,2,1,2,1,2,1,2 and a tieup
\* whose treadles 3 and 4 raise shafts 2 and 1.
ExampleAsStated ==
    ExampleCall =>
        /\ Returned(direct)
        /\ direct.pattern.threading = <<{1}, {2}, {1}, {2}, {1}, {2}, {1}, {2}>>
        /\ direct.pattern.tieup = <<{1}, {2}, {2}, {1}>>

\* C3: as_op_doubleweave with no filter options on the example draft returns
\* threading 1,2,2,1,1,2,2,1 (each end followed by its opposite shaft) and a
\* tieup of 4 treadles 1->{1}, 2->{2}, 3->{1}, 4->{2}.
ExampleEndToEnd ==
    ExampleCall =>
        /\ Returned(direct)
        /\ direct.pattern.threading = <<{1}, {2}, {2}, {1}, {1}, {2}, {2}, {1}>>
        /\ direct.pattern.tieup = <<{1}, {2}, {1}, {2}>>

ExampleReturned == ExampleCall /\ Returned(direct)

\* the shafts used by the ends of pattern p that the call kept
ShaftsUsed(p, r) == UNION {p.threading[r.ends[i]] : i \in 1..Len(r.ends)}

ShaftDoublingOf(p, r) ==
    LET numShafts == Cardinality(ShaftsUsed(p, r))
        out == r.pattern
    IN  /\ DOMAIN out.tieup = 1..(2 * numShafts)
        /\ Cardinality(UNION Range(out.threading)) = numShafts
        /\ DOMAIN out.threading = 1..(2 * Len(r.ends))
        /\ \A i \in 0..(Len(r.ends) - 1) :
              numShafts > 1 => out.threading[2 * i + 1] # out.threading[2 * i + 2]

\* C4: when as_op_doubleweave returns, with numShafts distinct shafts used
\* after filtering, the output tieup has exactly 2*numShafts treadles, the
\* output threading uses exactly numShafts distinct shafts, and in every end
\* pair (2i+1, 2i+2) the opposite shaft differs from the main shaft whenever
\* numShafts > 1.
ShaftDoubling ==
    /\ Returned(direct) => ShaftDoublingOf(input, direct)
    /\ Returned(chained) => ShaftDoublingOf(filtered.pattern, chained)

ShaftDoublingSeen ==
    /\ Returned(direct)
    /\ Cardinality(ShaftsUsed(input, direct)) = 3
    /\ Returned(chained)
    /\ Cardinality(ShaftsUsed(filtered.pattern, chained)) = 3
\* the ordered dicts as_op_doubleweave is left with after filtering pattern p
SurvivingEnds(p, f) == dw_filtered_threading(p, f)

SurvivingPicks(p, f) == dw_filtered_treadling(p, f)

IdsUsed(items) == UNION {items[i][2] : i \in 1..Len(items)}

MultipleTreadlesCase ==
    /\ direct # NotCalled
    /\ DOMAIN input.treadling # {}
    /\ \A i \in 1..Len(SurvivingEnds(input, filter)) :
          Cardinality(SurvivingEnds(input, filter)[i][2]) = 1
    /\ \E i \in 1..Len(SurvivingPicks(input, filter)) :
          Cardinality(SurvivingPicks(input, filter)[i][2]) > 1

IsMultipleTreadlesError(r) ==
    r.status = "RuntimeError" /\ r.message = MultipleTreadlesMessage

\* C5 as stated: with treadling present, one shaft on every surviving end and
\* a surviving pick on more than one treadle, the call fails with the
\* "multiple treadles per pick" error and no other.
MultipleTreadlesAsStated ==
    MultipleTreadlesCase => IsMultipleTreadlesError(direct)

\* C5: in that case as_op_doubleweave never returns a pattern, and the error
\* is "multiple treadles per pick" whenever the surviving ends use as many
\* distinct shafts as the surviving picks use distinct treadles (the shaft
\* count != treadle count check comes first).
MultipleTreadlesRejected ==
    MultipleTreadlesCase =>
        /\ ~Returned(direct)
        /\ Cardinality(IdsUsed(SurvivingEnds(input, filter)))
             = Cardinality(IdsUsed(SurvivingPicks(input, filter)))
           => IsMultipleTreadlesError(direct)

MultipleTreadlesSeen == MultipleTreadlesCase /\ IsMultipleTreadlesError(direct)

IsDocumentedError(r) ==
    /\ r.status = "RuntimeError"
    /\ \/ r.message \in {NoTreadlingMessage, MultipleShaftsMessage, MultipleTreadlesMessage}
       \/ \E n, m \in 0..(MaxShaft + MaxTreadle + MaxHarness) : r.message = CountMessage(n, m)

\* C6: as_op_doubleweave either returns a pattern or fails with one of the
\* four documented precondition errors, also when no end or no pick survives.
FailureClassification ==
    /\ direct # NotCalled => Returned(direct) \/ IsDocumentedError(direct)
    /\ chained # NotCalled => Returned(chained) \/ IsDocumentedError(chained)

\* the call passed every check and built threading, tieup and treadling
ReachedNaming(r) ==
    Returned(r) \/ (r.status = "TypeError" /\ r.message = JoinMessage)

\* C7: when the transform otherwise succeeds, as_op_doubleweave returns a
\* pattern named input name, "as op doubleweave", then the option tokens
\* filter_pattern appends for the same config.
OutputNaming ==
    (direct # NotCalled /\ ReachedNaming(direct)) =>
        /\ Returned(direct)
        /\ direct.pattern.name =
             join(" ", <<input.name, "as op doubleweave">> \o fp_option_tokens(filter))

\* C8: no treadle set of filter_pattern's output treadling contains a member
\* of skip_treadles, output entry i is the treadle set of the i-th kept pick
\* less the skipped treadles, a pick whose treadles are all skipped is not
\* among the kept picks, and the output liftplan is what it is with
\* skip_treadles empty.
SkipTreadlesExclusion ==
    Returned(filtered) =>
        LET skipped == Range(filter.skip_treadles)
            out == filtered.pattern
        IN  /\ \A i \in DOMAIN out.treadling : out.treadling[i] \cap skipped = {}
            /\ DOMAIN out.treadling = 1..Len(filtered.picks)
            /\ \A i \in 1..Len(filtered.picks) :
                  out.treadling[i] = input.treadling[filtered.picks[i]] \ skipped
            /\ \A pick \in DOMAIN input.treadling :
                  input.treadling[pick] \subseteq skipped
                  => \A i \in 1..Len(filtered.picks) : filtered.picks[i] # pick
            /\ out.liftplan =
                 filter_pattern(input, [filter EXCEPT !.skip_treadles = <<>>]).pattern.liftplan

SkipTreadlesSeen ==
    /\ Returned(filtered)
    /\ Len(filter.skip_treadles) # 0
    /\ Len(filtered.picks) # 0
    /\ \E pick \in DOMAIN input.treadling :
          /\ input.treadling[pick] # {}
          /\ input.treadling[pick] \subseteq Range(filter.skip_treadles)
    /\ \E pick \in DOMAIN input.treadling :
          /\ input.treadling[pick] \cap Range(filter.skip_treadles) # {}
          /\ ~(input.treadling[pick] \subseteq Range(filter.skip_treadles))
    /\ DOMAIN filtered.pattern.liftplan # {}

NonEmptyKeys(data) == {k \in DOMAIN data : data[k] # {}}

\* the k-th smallest key of data whose set is not empty
KthKey(data, k) ==
    CHOOSE x \in NonEmptyKeys(data) :
        Cardinality({y \in NonEmptyKeys(data) : y < x}) = k - 1

Renumbered(out, data) ==
    /\ DOMAIN out = 1..Cardinality(NonEmptyKeys(data))
    /\ \A k \in DOMAIN out : out[k] = data[KthKey(data, k)]

\* C9: filter_pattern with an all-false, empty config returns threading,
\* treadling and liftplan whose keys are exactly 1..N and whose k-th set is
\* the set of the k-th smallest input key that has a non-empty set.
OrderPreservingRenumbering ==
    (Returned(filtered) /\ filter = DefaultFilter) =>
        /\ Renumbered(filtered.pattern.threading, input.threading)
        /\ Renumbered(filtered.pattern.treadling, input.treadling)
        /\ Renumbered(filtered.pattern.liftplan, input.liftplan)

RenumberingSeen ==
    /\ Returned(filtered)
    /\ filter = DefaultFilter
    /\ \E k \in DOMAIN input.treadling : input.treadling[k] = {}
    /\ 1 \notin NonEmptyKeys(input.treadling)
    /\ NonEmptyKeys(input.treadling) # {}
    /\ DOMAIN filtered.pattern.threading # {}
    /\ NonEmptyKeys(input.liftplan) = {2, 5}

\* C10: as_op_doubleweave(p, f) and as_op_doubleweave(filter_pattern(p, f),
\* Filter()) both fail or both return, and when they return their threading,
\* tieup, treadling, warp_colors and weft_colors are identical.
ExpanderEqualsFilterThenExpand ==
    (direct # NotCalled /\ chained # NotCalled) =>
        /\ Returned(direct) <=> Returned(chained)
        /\ (Returned(direct) /\ Returned(chained)) =>
              /\ direct.pattern.threading = chained.pattern.threading
              /\ direct.pattern.tieup = chained.pattern.tieup
              /\ direct.pattern.treadling = chained.pattern.treadling
              /\ direct.pattern.warp_colors = chained.pattern.warp_colors
              /\ direct.pattern.weft_colors = chained.pattern.weft_colors

\* the (main shaft, opposite shaft) pairs of the output end pairs (2i+1, 2i+2)
ShaftPairs(out) ==
    {<<m, o>> \in (UNION Range(out.threading)) \X (UNION Range(out.threading)) :
        \E i \in 0..((Len(out.threading) \div 2) - 1) :
            /\ out.threading[2 * i + 1] = {m}
            /\ out.threading[2 * i + 2] = {o}}

OppositeShaftAgreementOf(p, r) ==
    LET numShafts == Cardinality(ShaftsUsed(p, r))
        out == r.pattern
        pairs == ShaftPairs(out)
    IN  /\ \A i \in 0..(Len(r.ends) - 1) :
              \E pr \in pairs : /\ out.threading[2 * i + 1] = {pr[1]}
                                 /\ out.threading[2 * i + 2] = {pr[2]}
        /\ \A pr \in pairs :
              /\ out.tieup[pr[1]] = {pr[1]}
              /\ out.tieup[pr[1] + numShafts] = (1..numShafts) \ {pr[2]}
        /\ {pr[1] : pr \in pairs} = 1..numShafts
        /\ {pr[2] : pr \in pairs} = 1..numShafts
        /\ \A pr, qr \in pairs : (pr[1] = qr[1]) <=> (pr[2] = qr[2])

\* C11: in every pattern as_op_doubleweave returns, every output end pair
\* (2i+1, 2i+2) is threaded on one main shaft m and one opposite shaft o, the
\* tieup of treadle m is {m}, the tieup of treadle m+numShafts is 1..numShafts
\* less o, and m -> o is a permutation of 1..numShafts.
OppositeShaftAgreement ==
    /\ Returned(direct) => OppositeShaftAgreementOf(input, direct)
    /\ Returned(chained) => OppositeShaftAgreementOf(filtered.pattern, chained)

OppositeShaftAgreementSeen ==
    /\ Returned(direct)
    /\ Cardinality(ShaftsUsed(input, direct)) = 3
    /\ \E pr \in ShaftPairs(direct.pattern) : pr[1] # pr[2]
    /\ Returned(chained)
    /\ \E pr \in ShaftPairs(chained.pattern) : pr[2] = 1 /\ pr[1] = 3
====
